---- MODULE Spec2Model ----
(***************************************************************************)
(* State-machine model of the property-search HTTP service (src/app.py).   *)
(*                                                                         *)
(* Each request handler runs to completion as one action.  The store (the  *)
(* PostgreSQL/PostGIS table "properties") is the only state that survives  *)
(* a request; the remaining variables record the last request, the values  *)
(* its handler computed and the response it produced.                      *)
(*                                                                         *)
(* Values.  A Python / JSON / SQL value is a record [k, v, s]:             *)
(*   k = "none"    Python None, SQL NULL, an absent query argument         *)
(*   k = "num"     a number (v); as a raw query argument: numeric text     *)
(*   k = "str"     text (s, a sequence of one-character strings); as a raw *)
(*                 query argument where a number is expected: text that    *)
(*                 int()/float() reject                                    *)
(*   k = "missing" a key that a JSON object does not hold                  *)
(* Coordinates are whole multiples of CoordUnit degrees, so the default    *)
(* centre (37.7749, -122.4194) is the grid point (377749, -1224194).       *)
(***************************************************************************)
EXTENDS Integers, Sequences, FiniteSets, TLC

VARIABLES
    store,          \* committed rows of table properties, in heap order
    nextId,         \* next value of the id sequence of the table
    openConns,      \* connections to the store the process holds open
    req,            \* the last request
    fault,          \* where the store failed during the last request
    resp,           \* the response to the last request
    conditions,     \* search_properties: the list conditions
    params,         \* the parameters bound to the last statement
    fetched,        \* the handler's list properties (cur.fetchall())
    contacted,      \* the last request called get_db_connection
    exc,            \* the exception the handler's except clause caught
    logged,         \* what the last request wrote to the log
    committed,      \* rows the last request added to the table
    prevCommitted   \* rows the request before the last one added

vars == <<store, nextId, openConns, req, fault, resp, conditions, params,
          fetched, contacted, exc, logged, committed, prevCommitted>>

----------------------------------------------------------------------------
(* Values *)

None == [k |-> "none", v |-> 0, s |-> <<>>]
Missing == [k |-> "missing", v |-> 0, s |-> <<>>]
Num(n) == [k |-> "num", v |-> n, s |-> <<>>]
Str(t) == [k |-> "str", v |-> 0, s |-> t]

\* Python truthiness of None, a number or a string
Truthy(x) ==
    CASE x.k = "num" -> x.v # 0
      [] x.k = "str" -> x.s # <<>>
      [] OTHER -> FALSE

Min(a, b) == IF a <= b THEN a ELSE b
Abs(a) == IF a < 0 THEN -a ELSE a

\* bounds of the model
MaxInserts == 1
BulkSize == 101

\* constants of the program
MAX_LIMIT == 100
NEARBY_DEFAULT_LIMIT == 10
SEARCH_DEFAULT_LIMIT == 20
DEFAULT_RADIUS == 1000
DEFAULT_LAT == 377749
DEFAULT_LNG == -1224194
\* coordinate units per degree
CoordUnit == 10000

----------------------------------------------------------------------------
(* Text *)

Condo == <<"C", "o", "n", "d", "o">>
House == <<"H", "o", "u", "s", "e">>
Unknown == <<"U", "n", "k", "n", "o", "w", "n">>
Addr == <<"1", "M">>

Lower(c) ==
    CASE c = "C" -> "c"
      [] c = "H" -> "h"
      [] c = "U" -> "u"
      [] c = "M" -> "m"
      [] OTHER -> c

\* SQL: text ILIKE pattern ("%" any run of characters, "_" any character)
RECURSIVE ILike(_, _)
ILike(t, p) ==
    IF p = <<>> THEN t = <<>>
    ELSE IF Head(p) = "%"
         THEN ILike(t, Tail(p)) \/ (t # <<>> /\ ILike(Tail(t), p))
         ELSE /\ t # <<>>
              /\ (Head(p) = "_" \/ Lower(Head(p)) = Lower(Head(t)))
              /\ ILike(Tail(t), Tail(p))

\* t holds u as a substring, letter case ignored
ContainsCI(t, u) ==
    \E i \in 0..(Len(t) - Len(u)) :
        \A j \in 1..Len(u) : Lower(t[i + j]) = Lower(u[j])

----------------------------------------------------------------------------
(* The store: table properties *)

NoLoc == [null |-> TRUE, x |-> 0, y |-> 0]
Point(x, y) == [null |-> FALSE, x |-> x, y |-> y]

Row(id, price, beds, baths, sqft, ptype, status, loc) ==
    [id |-> id, address |-> Str(Addr), price |-> price, bedrooms |-> beds,
     bathrooms |-> baths, square_feet |-> sqft, property_type |-> ptype,
     listing_status |-> status, location |-> loc]

Active == <<"a">>
Sold == <<"s">>

\* squared planar distance, the order ST_Distance gives
Dist2(loc, x, y) == (loc.x - x) * (loc.x - x) + (loc.y - y) * (loc.y - y)

\* ST_DWithin(location, POINT(x y), radius): distance <= radius degrees
DWithin(loc, x, y, radius) ==
    LET dx == Abs(loc.x - x)
        dy == Abs(loc.y - y)
        r == radius * CoordUnit
    IN  IF dx > r \/ dy > r THEN FALSE
        ELSE IF dx + dy <= r THEN TRUE
        ELSE dx * dx + dy * dy <= r * r

Range(q) == {q[i] : i \in 1..Len(q)}

\* ORDER BY key LIMIT k over the rows q: rows of equal key come in any
\* order, so each way f of ranking the rows that share a key gives a result
TiedRows(q, key) ==
    IF Cardinality({key[r] : r \in Range(q)}) = Len(q) THEN {}
    ELSE {r \in Range(q) : \E x \in Range(q) : x # r /\ key[x] = key[r]}

Rankings(T) ==
    {f \in [T -> 1..Cardinality(T)] : \A a, b \in T : a # b => f[a] # f[b]}

Before(x, r, key, f) ==
    key[x] < key[r] \/ (key[x] = key[r] /\ x # r /\ f[x] < f[r])

OrderedPrefixes(q, key, k) ==
    {SubSeq(SortSeq(q, LAMBDA x, r : Before(x, r, key, f)), 1, k)
     : f \in Rankings(TiedRows(q, key))}

----------------------------------------------------------------------------
(* Exceptions, log lines, responses *)

NoExc == [type |-> "", msg |-> ""]
ValueError == [type |-> "ValueError", msg |-> "invalid literal"]
TypeError == [type |-> "TypeError", msg |-> "unsupported argument"]
ConnectError == [type |-> "psycopg2.OperationalError", msg |-> "could not connect to server"]
ExecuteError == [type |-> "psycopg2.Error", msg |-> "statement failed"]
FetchError == [type |-> "psycopg2.Error", msg |-> "fetch failed"]
CommitError == [type |-> "psycopg2.Error", msg |-> "commit failed"]

StoreErrors == {ConnectError, ExecuteError, FetchError, CommitError}

LogLine(prefix, e) == [prefix |-> prefix, detail |-> e.msg]

NoResponse ==
    [status |-> 0, state |-> "", error |-> "", has_list |-> FALSE,
     properties |-> <<>>, total_found |-> 0, property_id |-> 0,
     summary |-> <<>>]

\* jsonify({"error": msg}), status
ErrorResponse(status, msg) == [NoResponse EXCEPT !.status = status, !.error = msg]

\* flask.jsonify(*args, **kwargs) raises TypeError when it is given both
\* positional and keyword arguments
JsonifyRaises(nargs, kwargs) == nargs > 0 /\ kwargs # {}

\* what a handler run leaves behind; store and nextId are the store's state
\* after it, conns the connections it leaves open
Outcome(st, nid) ==
    [fault |-> "none", resp |-> NoResponse, conditions |-> <<>>,
     params |-> <<>>, fetched |-> <<>>, contacted |-> FALSE, exc |-> NoExc,
     logged |-> <<>>, store |-> st, nextId |-> nid, conns |-> 0]

----------------------------------------------------------------------------
(* Connections *)

\* get_db_connection(): psycopg2.connect, the failure logged and re-raised
GetDbConnection(f) ==
    IF f = "connect"
    THEN [ok |-> FALSE, exc |-> ConnectError,
          logged |-> <<LogLine("Database connection failed", ConnectError)>>]
    ELSE [ok |-> TRUE, exc |-> NoExc, logged |-> <<>>]

\* a transaction end that commits even when an exception leaves the block
ConnExitCommitsAlways(raised, st, pending) == st \o pending

\* leaving "with conn:" ends the transaction: commit on a normal exit,
\* rollback on an exception.  st is the committed table, pending the rows
\* the transaction inserted.  The connection itself stays open.
ConnExit(raised, st, pending) == IF raised THEN st ELSE st \o pending

\* a frame whose connection stays referenced, and so open, after the return
FrameKeeps(held) == held

\* the handler returns: its frame, the only holder of conn and cur, is
\* released, and the connection object closes its socket as it is freed
FrameRelease(held) == 0

----------------------------------------------------------------------------
(* Statements *)

\* find_nearby_properties: the SELECT with its parameters
\* p = (lng, lat, lng, lat, radius, limit).  PostGIS rejects a negative
\* tolerance, PostgreSQL a negative LIMIT.
NearbyStatementFails(p) == p[5] < 0 \/ p[6] < 0

NearbyMatches(st, p) ==
    SelectSeq(st, LAMBDA r : ~r.location.null /\ DWithin(r.location, p[3], p[4], p[5]))

NearbyResults(st, p) ==
    LET match == NearbyMatches(st, p)
        key == [r \in Range(match) |-> Dist2(r.location, p[1], p[2])]
    IN  OrderedPrefixes(match, key, Min(p[6], Len(match)))

\* search_properties: the condition texts
BaseCondition == "listing_status = 'active'"
PriceMinCondition == "price >= %s"
PriceMaxCondition == "price <= %s"
BedroomsCondition == "bedrooms >= %s"
BathroomsCondition == "bathrooms >= %s"
TypeCondition == "property_type ILIKE %s"

\* number of %s placeholders in a condition
Placeholders(c) == IF c = BaseCondition THEN 0 ELSE 1

RECURSIVE PlaceholdersIn(_)
PlaceholdersIn(cs) ==
    IF cs = <<>> THEN 0 ELSE Placeholders(Head(cs)) + PlaceholdersIn(Tail(cs))

\* the parameter the placeholder of the j-th condition is bound to
ParamOf(cs, p, j) == p[PlaceholdersIn(SubSeq(cs, 1, j - 1)) + 1]

\* the store can compare the column of condition c with the value x
WellTyped(c, x) ==
    CASE c = BaseCondition -> TRUE
      [] c = TypeCondition -> x.k = "str"
      [] OTHER -> x.k = "num"

\* SQL value of condition c on row r with its placeholder bound to x; a
\* comparison with NULL is not true
CondHolds(c, x, r) ==
    CASE c = BaseCondition -> r.listing_status = Str(Active)
      [] c = PriceMinCondition -> r.price.k = "num" /\ r.price.v >= x.v
      [] c = PriceMaxCondition -> r.price.k = "num" /\ r.price.v <= x.v
      [] c = BedroomsCondition -> r.bedrooms.k = "num" /\ r.bedrooms.v >= x.v
      [] c = BathroomsCondition -> r.bathrooms.k = "num" /\ r.bathrooms.v >= x.v
      [] c = TypeCondition -> r.property_type.k = "str" /\ ILike(r.property_type.s, x.s)
      [] OTHER -> FALSE

\* the statement of search_properties: WHERE the conditions joined with
\* AND, LIMIT the last parameter; parameters are bound by position
SearchStatementFails(cs, p) ==
    \/ Len(p) # PlaceholdersIn(cs) + 1
    \/ \E j \in 1..Len(cs) :
          Placeholders(cs[j]) = 1 /\ ~WellTyped(cs[j], ParamOf(cs, p, j))
    \/ p[Len(p)].k # "num"
    \/ p[Len(p)].v < 0

SearchMatches(st, cs, p) ==
    SelectSeq(st, LAMBDA r : \A j \in 1..Len(cs) :
        CondHolds(cs[j], IF Placeholders(cs[j]) = 1 THEN ParamOf(cs, p, j) ELSE None, r))

SearchResults(st, cs, p) ==
    LET match == SearchMatches(st, cs, p)
        key == [r \in Range(match) |-> r.price.v]
    IN  OrderedPrefixes(match, key, Min(p[Len(p)].v, Len(match)))

\* add_property: the INSERT with its parameters p = (address, price,
\* bedrooms, bathrooms, square_feet, property_type, longitude, latitude).
\* The two coordinates are substituted inside the quoted text 'POINT(%s %s)':
\* only numbers leave well-formed text behind.
InsertStatementFails(p) == p[7].k # "num" \/ p[8].k # "num"

\* the row the INSERT creates: id from the sequence, listing_status the
\* column default status
InsertedRow(p, id, status) ==
    [id |-> id, address |-> p[1], price |-> p[2], bedrooms |-> p[3],
     bathrooms |-> p[4], square_feet |-> p[5], property_type |-> p[6],
     listing_status |-> Str(status), location |-> Point(p[7].v, p[8].v)]

----------------------------------------------------------------------------
(* Handlers.  Each operator gives the outcomes of one run of the handler   *)
(* on the table st with the id sequence at nid, the store failing at step  *)
(* f ("none", "connect", "execute", "fetch" or "commit").                  *)

\* an except clause that answers with the text of the exception
CaughtLeaks(o, e, prefix, status, msg) ==
    [o EXCEPT !.exc = e,
              !.logged = Append(@, LogLine(prefix, e)),
              !.resp = [NoResponse EXCEPT !.status = status, !.error = e.msg]]

\* except clause: log the exception, answer {"error": msg} with status
Caught(o, e, prefix, status, msg) ==
    [o EXCEPT !.exc = e,
              !.logged = Append(@, LogLine(prefix, e)),
              !.resp = ErrorResponse(status, msg)]

\* health_check
HealthFailure(o, e) ==
    [o EXCEPT !.exc = e,
              !.logged = Append(@, LogLine("Health check failed", e)),
              !.resp = [NoResponse EXCEPT !.status = 500,
                                          !.state = "unhealthy",
                                          !.error = e.msg]]

HealthOutcomes(st, nid, f) ==
    LET c == GetDbConnection(f)
        o1 == [Outcome(st, nid) EXCEPT !.contacted = TRUE, !.logged = c.logged]
        o2 == [o1 EXCEPT !.conns = FrameRelease(1)]
    IN  IF ~c.ok THEN {HealthFailure([o1 EXCEPT !.fault = "connect"], c.exc)}
        ELSE IF f = "execute"
        THEN {HealthFailure([o2 EXCEPT !.fault = "execute"], ExecuteError)}
        ELSE IF f = "fetch"
        THEN {HealthFailure([o2 EXCEPT !.fault = "fetch"], FetchError)}
        ELSE {[o2 EXCEPT !.resp =
                 [NoResponse EXCEPT
                    !.status = 200, !.state = "healthy",
                    !.summary = <<Len(st),
                                  Len(SelectSeq(st, LAMBDA r : ~r.location.null))>>]]}

\* a conversion that accepts any text
ConvertsAnything(raw) == TRUE

\* float(x) / int(x) of a raw argument that is present or defaulted
Converts(raw) == raw.k # "str"
Converted(raw, default) == IF raw.k = "num" THEN raw.v ELSE default

\* the limit passed through unclamped
NoClamp(n) == n

\* min(int(limit), 100)
ClampLimit(n) == Min(n, MAX_LIMIT)

\* request.args.get(name, type=int): None when absent or not convertible
TypedArg(raw) == IF raw.k = "num" THEN raw ELSE None

\* the 200 response of the two searches: jsonify({...}, default=serialize_result)
ListResponse(rows) ==
    [NoResponse EXCEPT !.status = 200, !.has_list = TRUE,
                       !.properties = rows, !.total_found = Len(rows)]

\* find_nearby_properties
NearbyOutcomes(st, nid, a, f) ==
    LET o0 == Outcome(st, nid)
    IN  IF ~(Converts(a.lat) /\ Converts(a.lng) /\ Converts(a.radius) /\ Converts(a.limit))
        THEN {[o0 EXCEPT !.exc = ValueError,
                         !.resp = ErrorResponse(400, "Invalid coordinates or radius")]}
        ELSE
        LET lat == Converted(a.lat, DEFAULT_LAT)
            lng == Converted(a.lng, DEFAULT_LNG)
            radius == Converted(a.radius, DEFAULT_RADIUS)
            limit == ClampLimit(Converted(a.limit, NEARBY_DEFAULT_LIMIT))
            p == <<lng, lat, lng, lat, radius, limit>>
            c == GetDbConnection(f)
            o1 == [o0 EXCEPT !.contacted = TRUE, !.logged = c.logged]
            o2 == [o1 EXCEPT !.params = p, !.conns = FrameRelease(1)]
        IN  IF ~c.ok
            THEN {Caught([o1 EXCEPT !.fault = "connect"], c.exc,
                         "Nearby search failed", 500, "Search failed")}
            ELSE IF f = "execute" \/ NearbyStatementFails(p)
            THEN {Caught([o2 EXCEPT !.fault = "execute"], ExecuteError,
                         "Nearby search failed", 500, "Search failed")}
            ELSE IF f = "fetch"
            THEN {Caught([o2 EXCEPT !.fault = "fetch"], FetchError,
                         "Nearby search failed", 500, "Search failed")}
            ELSE {IF JsonifyRaises(1, {"default"})
                  THEN Caught([o2 EXCEPT !.fetched = rows], TypeError,
                              "Nearby search failed", 500, "Search failed")
                  ELSE [o2 EXCEPT !.fetched = rows, !.resp = ListResponse(rows)]
                  : rows \in NearbyResults(st, p)}

\* search_properties: the query builder, lines "conditions = [...]" to
\* "params.append(limit)"
AppendIf(acc, present, cond, value) ==
    IF present
    THEN [c |-> Append(acc.c, cond), p |-> Append(acc.p, value)]
    ELSE acc

BuildQuery(price_min, price_max, bedrooms, bathrooms, property_type, limit) ==
    LET q0 == [c |-> <<BaseCondition>>, p |-> <<>>]
        q1 == AppendIf(q0, Truthy(price_min), PriceMinCondition, price_min)
        q2 == AppendIf(q1, Truthy(price_max), PriceMaxCondition, price_max)
        q3 == AppendIf(q2, Truthy(bedrooms), BedroomsCondition, bedrooms)
        q4 == AppendIf(q3, Truthy(bathrooms), BathroomsCondition, bathrooms)
        q5 == AppendIf(q4, Truthy(property_type), TypeCondition,
                       Str(<<"%">> \o property_type.s \o <<"%">>))
    IN  [c |-> q5.c, p |-> Append(q5.p, Num(limit))]

SearchOutcomes(st, nid, a, f) ==
    LET o0 == Outcome(st, nid)
    IN  IF ~Converts(a.limit)
        THEN {Caught(o0, ValueError, "Property search failed", 500, "Search failed")}
        ELSE
        LET q == BuildQuery(TypedArg(a.price_min), TypedArg(a.price_max),
                            TypedArg(a.bedrooms), TypedArg(a.bathrooms),
                            a.property_type,
                            ClampLimit(Converted(a.limit, SEARCH_DEFAULT_LIMIT)))
            c == GetDbConnection(f)
            o1 == [o0 EXCEPT !.conditions = q.c, !.params = q.p,
                             !.contacted = TRUE, !.logged = c.logged]
            o2 == [o1 EXCEPT !.conns = FrameRelease(1)]
        IN  IF ~c.ok
            THEN {Caught([o1 EXCEPT !.fault = "connect"], c.exc,
                         "Property search failed", 500, "Search failed")}
            ELSE IF f = "execute" \/ SearchStatementFails(q.c, q.p)
            THEN {Caught([o2 EXCEPT !.fault = "execute"], ExecuteError,
                         "Property search failed", 500, "Search failed")}
            ELSE IF f = "fetch"
            THEN {Caught([o2 EXCEPT !.fault = "fetch"], FetchError,
                         "Property search failed", 500, "Search failed")}
            ELSE {IF JsonifyRaises(1, {"default"})
                  THEN Caught([o2 EXCEPT !.fetched = rows], TypeError,
                              "Property search failed", 500, "Search failed")
                  ELSE [o2 EXCEPT !.fetched = rows, !.resp = ListResponse(rows)]
                  : rows \in SearchResults(st, q.c, q.p)}

\* add_property
RequiredFields == {"address", "price", "latitude", "longitude"}

\* data.get(key, default)
Get(x, default) == IF x.k = "missing" THEN default ELSE x

\* the values the listing_status column default may give a new row
DefaultStatuses == {Active, Sold}

AddOutcomes(st, nid, data, f) ==
    LET o0 == Outcome(st, nid)
    IN  IF data.kind # "object"
        THEN {Caught(o0, TypeError, "Add property failed", 500, "Failed to add property")}
        ELSE IF \E k \in RequiredFields : data.f[k].k = "missing"
        THEN {[o0 EXCEPT !.resp = ErrorResponse(400, "Missing required fields")]}
        ELSE
        LET p == <<data.f["address"], data.f["price"],
                   Get(data.f["bedrooms"], None), Get(data.f["bathrooms"], None),
                   Get(data.f["square_feet"], None),
                   Get(data.f["property_type"], Str(Unknown)),
                   data.f["longitude"], data.f["latitude"]>>
            c == GetDbConnection(f)
            o1 == [o0 EXCEPT !.contacted = TRUE, !.logged = c.logged]
            o2 == [o1 EXCEPT !.params = p, !.conns = FrameRelease(1)]
        IN  IF ~c.ok
            THEN {Caught([o1 EXCEPT !.fault = "connect"], c.exc,
                         "Add property failed", 500, "Failed to add property")}
            ELSE IF f = "execute" \/ InsertStatementFails(p)
            THEN {Caught([o2 EXCEPT !.fault = "execute",
                                    !.store = ConnExit(TRUE, st, <<>>)],
                         ExecuteError, "Add property failed", 500,
                         "Failed to add property")}
            ELSE
            {LET row == InsertedRow(p, nid, status)
                 o3 == [o2 EXCEPT !.nextId = nid + 1]
             IN  IF f = "fetch"
                 THEN Caught([o3 EXCEPT !.fault = "fetch",
                                        !.store = ConnExit(TRUE, st, <<row>>)],
                             FetchError, "Add property failed", 500,
                             "Failed to add property")
                 ELSE IF f = "commit"
                 THEN Caught([o3 EXCEPT !.fault = "commit",
                                        !.store = ConnExit(TRUE, st, <<row>>)],
                             CommitError, "Add property failed", 500,
                             "Failed to add property")
                 ELSE IF JsonifyRaises(1, {})
                 THEN Caught([o3 EXCEPT !.store = ConnExit(TRUE, Append(st, row), <<>>)],
                             TypeError, "Add property failed", 500,
                             "Failed to add property")
                 ELSE [o3 EXCEPT !.store = ConnExit(FALSE, Append(st, row), <<>>),
                                 !.resp = [NoResponse EXCEPT !.status = 201,
                                                             !.property_id = row.id]]
             : status \in DefaultStatuses}

----------------------------------------------------------------------------
(* Requests *)

NoFields == [k \in {"address", "price", "latitude", "longitude", "bedrooms",
                    "bathrooms", "square_feet", "property_type"} |-> Missing]
NoBody == [kind |-> "none", f |-> NoFields]
\* the JSON document null: request.get_json() returns None
NullBody == [kind |-> "null", f |-> NoFields]
ObjectBody(f) == [kind |-> "object", f |-> f]

NoRequest ==
    [ep |-> "none", lat |-> None, lng |-> None, radius |-> None,
     limit |-> None, price_min |-> None, price_max |-> None,
     bedrooms |-> None, bathrooms |-> None, property_type |-> None,
     body |-> NoBody]

HealthRequest == [NoRequest EXCEPT !.ep = "health"]
NearbyRequest(lat, lng, radius, limit) ==
    [NoRequest EXCEPT !.ep = "nearby", !.lat = lat, !.lng = lng,
                      !.radius = radius, !.limit = limit]
SearchRequest(pmin, pmax, beds, baths, ptype, limit) ==
    [NoRequest EXCEPT !.ep = "search", !.price_min = pmin, !.price_max = pmax,
                      !.bedrooms = beds, !.bathrooms = baths,
                      !.property_type = ptype, !.limit = limit]
AddRequest(body) == [NoRequest EXCEPT !.ep = "add", !.body = body]

\* the request r was handled with outcome o; the store may fail at any step
\* of any request, so the actions collect the outcomes over every step
Complete(r, o) ==
    /\ req' = r
    /\ fault' = o.fault
    /\ resp' = o.resp
    /\ conditions' = o.conditions
    /\ params' = o.params
    /\ fetched' = o.fetched
    /\ contacted' = o.contacted
    /\ exc' = o.exc
    /\ logged' = o.logged
    /\ store' = o.store
    /\ nextId' = o.nextId
    /\ openConns' = openConns + o.conns
    /\ committed' = Range(o.store) \ Range(store)
    /\ prevCommitted' = committed

----------------------------------------------------------------------------
(* Inputs of the model *)

BadText == <<"x">>
FarLng == DEFAULT_LNG + 2 * CoordUnit

SeedStore ==
    << Row(1, Num(30), Num(2), Num(1), Num(900), Str(Condo), Str(Active),
          Point(DEFAULT_LNG, DEFAULT_LAT)),
      Row(2, Num(70), None, None, None, Str(House), Str(Active),
          Point(FarLng, DEFAULT_LAT)),
      Row(3, Num(10), Num(3), Num(2), Num(700), Str(House), Str(Sold),
          Point(DEFAULT_LNG, DEFAULT_LAT)),
      Row(4, Num(50), Num(1), Num(1), None, Str(Unknown), Str(Active), NoLoc) >>

FirstId == Len(SeedStore) + 1

BulkRow(i) ==
    Row(i, Num(i), Num(i % 4), Num(1), None,
        Str(IF i % 2 = 0 THEN Condo ELSE House), Str(Active),
        Point(DEFAULT_LNG + i, DEFAULT_LAT))
BulkStore == [i \in 1..BulkSize |-> BulkRow(i)]

StoreFaults == {"none", "connect", "execute", "fetch"}
InsertFaults == StoreFaults \cup {"commit"}

\* requests: every combination of convertible arguments, and one request
\* per argument that does not convert
NearbyRequests ==
    {NearbyRequest(None, lng, radius, limit) :
        lng \in {None, Num(FarLng)}, radius \in {None, Num(-1), Num(0)},
        limit \in {None, Num(0), Num(1), Num(500)}}
    \cup {NearbyRequest(Str(BadText), None, None, None),
          NearbyRequest(None, Str(BadText), None, None),
          NearbyRequest(None, None, Str(BadText), None),
          NearbyRequest(None, None, None, Str(BadText))}

SearchRequests ==
    {SearchRequest(pmin, pmax, None, None, ptype, None) :
        pmin \in {None, Num(40)}, pmax \in {None, Num(0), Num(60)},
        ptype \in {None, Str(<<"c", "o">>)}}
    \cup {SearchRequest(None, None, Num(2), Num(1), None, Num(1)),
          SearchRequest(None, None, Num(0), Num(0), Str(<<>>), None),
          SearchRequest(None, None, None, None, None, Num(-1)),
          SearchRequest(None, None, None, None, None, Str(BadText))}

\* JSON objects: every way of leaving required keys out, and complete ones
IncompleteBodies ==
    {ObjectBody([k \in DOMAIN NoFields |->
                    IF k \in RequiredFields \ gone THEN Num(1) ELSE Missing]) :
     gone \in (SUBSET RequiredFields) \ {{}}}

CompleteBody(price, lng, lat) ==
    ObjectBody([NoFields EXCEPT
        !["address"] = Str(Addr), !["price"] = price,
        !["longitude"] = lng, !["latitude"] = lat])

CompleteBodies ==
    {CompleteBody(Num(50), lng, Num(DEFAULT_LAT)) :
        lng \in {Num(DEFAULT_LNG), Str(BadText)}}

AddBodies == {NullBody} \cup IncompleteBodies \cup CompleteBodies

----------------------------------------------------------------------------
(* Actions *)

HealthCheck ==
    \E o \in UNION {HealthOutcomes(store, nextId, f) : f \in StoreFaults} :
        Complete(HealthRequest, o)

FindNearbyProperties(Requests) ==
    \E r \in Requests :
        \E o \in UNION {NearbyOutcomes(store, nextId, r, f) : f \in StoreFaults} :
            Complete(r, o)

SearchProperties(Requests) ==
    \E r \in Requests :
        \E o \in UNION {SearchOutcomes(store, nextId, r, f) : f \in StoreFaults} :
            Complete(r, o)

AddProperty ==
    /\ nextId < FirstId + MaxInserts
    /\ \E body \in AddBodies :
        \E o \in UNION {AddOutcomes(store, nextId, body, f) : f \in InsertFaults} :
            Complete(AddRequest(body), o)

Nearby == FindNearbyProperties(NearbyRequests)
Search == SearchProperties(SearchRequests)

Idle(st, nid) ==
    /\ store = st
    /\ nextId = nid
    /\ openConns = 0
    /\ req = NoRequest
    /\ fault = "none"
    /\ resp = NoResponse
    /\ conditions = <<>>
    /\ params = <<>>
    /\ fetched = <<>>
    /\ contacted = FALSE
    /\ exc = NoExc
    /\ logged = <<>>
    /\ committed = {}
    /\ prevCommitted = {}

\* the table is empty or seeded; an empty table's sequence may have been
\* advanced by inserts that were rolled back
Init == \E st \in {<<>>, SeedStore} : Idle(st, FirstId)

Next == HealthCheck \/ Nearby \/ Search \/ AddProperty

Spec == Init /\ [][Next]_vars

----------------------------------------------------------------------------
(* A table larger than the result cap, searched with limits around the cap *)

BulkLimits == {None, Num(-1), Num(0), Num(1), Num(MAX_LIMIT - 1), Num(MAX_LIMIT),
               Num(MAX_LIMIT + 1), Num(500)}

BulkNearbyRequests ==
    {NearbyRequest(None, None, radius, limit) :
        radius \in {None, Num(0)}, limit \in BulkLimits}
    \cup {NearbyRequest(None, None, None, Str(BadText))}

BulkSearchRequests ==
    {SearchRequest(pmin, None, None, None, None, limit) :
        pmin \in {None, Num(BulkSize)}, limit \in BulkLimits}
    \cup {SearchRequest(None, None, None, None, None, Str(BadText))}

NearbyBulk == FindNearbyProperties(BulkNearbyRequests)
SearchBulk == SearchProperties(BulkSearchRequests)

InitLimit == Idle(BulkStore, BulkSize + 1)
NextLimit == NearbyBulk \/ SearchBulk
SpecLimit == InitLimit /\ [][NextLimit]_vars

----------------------------------------------------------------------------
(* Properties *)

IsSearch == req.ep \in {"nearby", "search"}

\* the store carried out every step the last request asked of it
StoreServed == contacted /\ fault = "none"

\* the limit the caller sent
AskedLimit == req.limit.v

\* the limit bound to the last statement
BoundLimit == IF req.ep = "nearby" THEN params[6] ELSE params[Len(params)].v

\* the row satisfies every filter the search request carries
SatisfiesFilters(r) ==
    /\ r.listing_status = Str(Active)
    /\ req.price_min.k = "num" => (r.price.k = "num" /\ r.price.v >= req.price_min.v)
    /\ req.price_max.k = "num" => (r.price.k = "num" /\ r.price.v <= req.price_max.v)
    /\ req.bedrooms.k = "num" => (r.bedrooms.k = "num" /\ r.bedrooms.v >= req.bedrooms.v)
    /\ req.bathrooms.k = "num" => (r.bathrooms.k = "num" /\ r.bathrooms.v >= req.bathrooms.v)
    /\ req.property_type.k = "str" =>
          (r.property_type.k = "str" /\ ContainsCI(r.property_type.s, req.property_type.s))

\* C1: every row a filtered search delivers (the rows the handler fetched
\* and puts into its response) is active and satisfies every filter the
\* caller supplied, a filter of value 0 included.
C1_ReturnedRowsSatisfyFilters ==
    req.ep = "search" =>
        /\ \A i \in 1..Len(fetched) : SatisfiesFilters(fetched[i])
        /\ \A i \in 1..Len(resp.properties) : SatisfiesFilters(resp.properties[i])

\* C2: for every integer limit the caller sends to either search, the limit
\* bound to the statement is min(limit, 100), and the rows delivered number
\* at most the limit and at most 100.
C2_LimitNeverExceeded ==
    (IsSearch /\ req.limit.k = "num") =>
        /\ params # <<>> => BoundLimit = Min(AskedLimit, MAX_LIMIT)
        /\ fetched # <<>> => (Len(fetched) <= AskedLimit /\ Len(fetched) <= MAX_LIMIT)
        /\ resp.has_list => (/\ Len(resp.properties) <= AskedLimit
                             /\ Len(resp.properties) <= MAX_LIMIT)

\* a request for 500 rows of a table of more than 100 matching rows fetched 100
C2_Witness ==
    /\ IsSearch
    /\ req.limit = Num(500)
    /\ StoreServed
    /\ Len(fetched) = MAX_LIMIT
    /\ Len(store) > MAX_LIMIT

\* no row of the table matches the last search statement
NoRowMatches ==
    \/ req.ep = "nearby" /\ NearbyMatches(store, params) = <<>>
    \/ req.ep = "search" /\ SearchMatches(store, conditions, params) = <<>>

\* C3: when the store runs the statement of a search and no row matches,
\* the response is 200 with an empty list and total_found = 0.
C3_EmptyResultIsSuccess ==
    (IsSearch /\ StoreServed /\ NoRowMatches) =>
        /\ resp.status = 200
        /\ resp.has_list
        /\ resp.properties = <<>>
        /\ resp.total_found = 0

\* C4: a POST body that lacks one of the required keys is answered 400
\* without the store being contacted or a row being stored.
C4_MissingFieldIsRejected ==
    (req.ep = "add" /\ \E k \in RequiredFields : req.body.f[k].k = "missing") =>
        /\ resp.status = 400
        /\ ~contacted
        /\ committed = {}

\* the last request is a nearby search centred on the row r with a radius
\* of at least 0
CentredOn(r) ==
    /\ req.ep = "nearby"
    /\ req.lat.k # "str" /\ req.lng.k # "str" /\ req.radius.k # "str"
    /\ req.limit.k # "str"
    /\ (IF req.lat.k = "num" THEN req.lat.v ELSE DEFAULT_LAT) = r.location.y
    /\ (IF req.lng.k = "num" THEN req.lng.v ELSE DEFAULT_LNG) = r.location.x
    /\ (IF req.radius.k = "num" THEN req.radius.v ELSE DEFAULT_RADIUS) >= 0

\* C5: a nearby search at the coordinates of the row the request before it
\* inserted returns that row (the store serving the search, and the limit
\* admitting every row in the radius).
C5_InsertThenNearbyFindsRow ==
    \A r \in prevCommitted :
        (CentredOn(r) /\ StoreServed /\ Len(NearbyMatches(store, params)) <= params[6]) =>
            /\ resp.has_list
            /\ \E i \in 1..Len(resp.properties) : resp.properties[i] = r

\* C6: add_property answers 201 with the id of the row exactly when the
\* request added one row to the table; when the store fails at any step it
\* answers 500 with the fixed message and the table holds no new row.
C6_InsertAnswerMatchesCommit ==
    req.ep = "add" =>
        /\ resp.status = 201 <=> committed # {}
        /\ resp.status = 201 =>
              (/\ Cardinality(committed) = 1
               /\ \A r \in committed : r.id = resp.property_id /\ r \in Range(store))
        /\ fault # "none" =>
              (/\ resp = ErrorResponse(500, "Failed to add property")
               /\ committed = {})

\* the INSERT ran and the commit failed: 500, and the row is not in the table
C6_Witness ==
    /\ req.ep = "add"
    /\ fault = "commit"
    /\ resp.status = 500
    /\ nextId > FirstId
    /\ committed = {}

FixedMessages == {"Search failed", "Failed to add property"}

FixedMessage(ep) == IF ep = "add" THEN "Failed to add property" ELSE "Search failed"

WasLogged(e) == \E i \in 1..Len(logged) : logged[i].detail = e.msg

\* C8 as claimed: on every endpoint a store failure is answered with the
\* body {error: fixed message}, free of the exception's text.
C8_EveryEndpointGeneric ==
    fault # "none" =>
        /\ resp = ErrorResponse(resp.status, resp.error)
        /\ resp.error \in FixedMessages
        /\ resp.error # exc.msg

\* C8 as amended: the three property endpoints answer a store failure with
\* 500 and {error: fixed message}, the exception's text going to the log
\* only; health_check answers 500 with status unhealthy and the exception's
\* text as its error.
C8_PropertyEndpointsGeneric ==
    fault # "none" =>
        /\ exc \in StoreErrors
        /\ WasLogged(exc)
        /\ IF req.ep = "health"
           THEN resp = [NoResponse EXCEPT !.status = 500, !.state = "unhealthy",
                                          !.error = exc.msg]
           ELSE resp = ErrorResponse(500, FixedMessage(req.ep))

\* a search whose statement the store failed
C8_Witness ==
    /\ req.ep = "search"
    /\ fault = "execute"
    /\ resp = ErrorResponse(500, "Search failed")
    /\ WasLogged(ExecuteError)

\* C9: find_nearby_properties answers a lat, lng or radius that is not a
\* number with 400 and without contacting the store; it answers 400 only
\* when an argument fails to convert; a store failure is answered 500.
C9_NearbyStatusCodes ==
    req.ep = "nearby" =>
        /\ (req.lat.k = "str" \/ req.lng.k = "str" \/ req.radius.k = "str") =>
              (/\ resp = ErrorResponse(400, "Invalid coordinates or radius")
               /\ ~contacted)
        /\ resp.status = 400 =>
              (/\ \E x \in {req.lat, req.lng, req.radius, req.limit} : x.k = "str"
               /\ exc = ValueError
               /\ fault = "none")
        /\ fault # "none" => resp.status = 500

\* a radius that is not a number
C9_Witness ==
    /\ req.ep = "nearby"
    /\ req.radius.k = "str"
    /\ resp.status = 400
    /\ ~contacted

\* the conditions and parameters with one predicate per present input
ExpectedQuery ==
    LET q0 == [c |-> <<BaseCondition>>, p |-> <<>>]
        q1 == AppendIf(q0, req.price_min.k = "num", PriceMinCondition, req.price_min)
        q2 == AppendIf(q1, req.price_max.k = "num", PriceMaxCondition, req.price_max)
        q3 == AppendIf(q2, req.bedrooms.k = "num", BedroomsCondition, req.bedrooms)
        q4 == AppendIf(q3, req.bathrooms.k = "num", BathroomsCondition, req.bathrooms)
        q5 == AppendIf(q4, req.property_type.k = "str", TypeCondition,
                       Str(<<"%">> \o req.property_type.s \o <<"%">>))
    IN  q5

\* C10: the condition list of search_properties is the base predicate and
\* one predicate per present input (a value of 0 included) in the order
\* appended, the parameters are their values in that order and then the
\* limit, and the statement has as many placeholders as parameters.
C10_OnePredicatePerPresentInput ==
    (req.ep = "search" /\ req.limit.k # "str") =>
        /\ conditions = ExpectedQuery.c
        /\ SubSeq(params, 1, Len(params) - 1) = ExpectedQuery.p
        /\ params[Len(params)].k = "num"
        /\ PlaceholdersIn(conditions) + 1 = Len(params)

====
